---- MODULE Spec2Model ----
(***************************************************************************)
(* Model of libs/hwui/renderthread/DrawFrameTask.cpp: the rendezvous      *)
(* between the producer (UI) thread, which calls drawFrame(), and the      *)
(* render thread, which executes the posted run() routine.                 *)
(*                                                                         *)
(* Durations and timestamps are measured in units of 5000 ns, so that the  *)
(* sanity bounds of run() (100000 ns and 10000000000 ns) fit the integers  *)
(* of the model checker.  mLock/mSignal are a mutex and a condition        *)
(* variable whose wait returns only after a signal.  Locals of run() are   *)
(* cleared when they go out of scope; ctx records what the latest step of  *)
(* run() handed to the CanvasContext and to the hint session.              *)
(***************************************************************************)
EXTENDS Integers, Sequences, FiniteSets, TLC

\* ---------------------------------------------------------------- bounds
MaxFrames == 2          \* drawFrame() calls explored
NumHandles == 2         \* distinct DeferredLayerUpdater objects
MaxCalls == 2           \* producer calls other than drawFrame() explored
MaxFairCalls == 1       \* the same, in the runs explored under fairness
MaxLayerCalls == 3      \* the same, in the runs of the layer queue alone
MaxEstimatorCalls == 3  \* the same, in the runs of the estimator alone
MaxEstimatorFrames == 3 \* drawFrame() calls in the runs of the estimator alone

Handles == 1..NumHandles

\* ------------------------------------------------------- program constants
EmptySlot == 0                        \* a std::function holding nullptr
kSanityCheckLowerBound == 20          \* 100000 ns
kSanityCheckUpperBound == 2000000     \* 10000000000 ns
targetCpuTimePercentage == 70         \* Properties::targetCpuTimePercentage

\* SyncResult is a bitmask of independent flags; a value is modelled as the
\* set of the flags it contains, OK being the empty set and |= set union.
SyncResultOK == {}
UIRedrawRequired == "UIRedrawRequired"
LostSurfaceRewardIfFound == "LostSurfaceRewardIfFound"
ContextIsStopped == "ContextIsStopped"
FrameDropped == "FrameDropped"

\* Values systemTime(SYSTEM_TIME_MONOTONIC) is observed to return.
Times == {0, 30}

\* Values the producer writes into the frame info array before drawFrame():
\* the slots run() and syncFrameState() compute with.
FrameInfos ==
    { [intendedVsync |-> 0, frameDeadline |-> 30, frameStartTime |-> 0],
      [intendedVsync |-> 10, frameDeadline |-> 30, frameStartTime |-> 10] }

\* Frame infos whose target and actual durations fall on and next to the
\* sanity bounds of run(): a target of 20 (100000 ns), of 2000000
\* (10000000000 ns) and of 1999999.  A frame start before the first clock
\* reading is a negative timestamp.
BoundaryFrameInfos ==
    { [intendedVsync |-> 1, frameDeadline |-> 30, frameStartTime |-> 10],
      [intendedVsync |-> 0, frameDeadline |-> 2857143, frameStartTime |-> -1999970],
      [intendedVsync |-> 0, frameDeadline |-> 2857142, frameStartTime |-> -1999969] }

\* Rectangles the producer sets as content draw bounds.
DrawBounds == {"empty", "full"}

\* Values CanvasContext::draw() reports as dequeue-buffer duration.
DequeueDurations == {0, 10}

\* ------------------------------------------------------- task field names
ProducerFields ==
    {"mFrameInfo", "mLayers", "mContentDrawBounds", "mSyncResult", "mSyncQueued",
     "mFrameCallback", "mFrameCompleteCallback"}
RendezvousFields == {"mLock", "mSignal"}

VARIABLES
    \* DrawFrameTask fields
    mContext,                   \* TRUE once setContext installed a context
    mUpdateTargetWorkDuration, mReportActualWorkDuration,
    mFrameInfo, mContentDrawBounds,
    mLayers,                    \* the layer update queue
    mFrameCallback, mFrameCompleteCallback,
    mSyncResult, mSyncQueued,
    mLastTargetWorkDuration, mLastDequeueBufferDuration,
    mLock,                      \* owner of the mutex: "none" or "ui"
    uiWaiting,                  \* the producer is in mSignal's wait set
    \* producer thread
    ppc, frames, ret, crashed, callsLeft,
    frameBudget,                \* drawFrame() calls the producer makes at most
    \* render thread
    queue,                      \* RenderThread::queue(), FIFO of posted run()s
    rpc, runFrame,
    syncDelayDuration, canDraw, info,
    canUnblockUiThread, canDrawThisFrame,
    callback, intendedVsync, frameDeadline, frameStartTime,
    dequeueBufferDuration,
    \* collaborators
    clock,                      \* last value systemTime() returned
    hasSurface,                 \* what CanvasContext::hasSurface() returned to this sync
    ctx,                        \* what the last step of run() handed to its collaborators
    \* observation
    prepared,                   \* the TreeInfo as prepareTree reported it
    forwarded,                  \* the target last handed to mUpdateTargetWorkDuration, 0 if none
    skipped,                    \* a target outside the bounds was skipped since then
    lastDraw,                   \* what the last draw() returned, 0 if the fences were waited on
    prevDraw,                   \* the same, of the run before the one in progress
    estimated,                  \* the last run found both estimator callbacks installed
    prevEstimated,              \* the same, of the run before the one in progress
    lastApplied,                \* the handles the last sync applied
    drew,                       \* the last run called draw()
    syncOut,                    \* the flags the last syncFrameState raised
    synced,                     \* the queue and the record of the pushes, as the sync found them
    signals,                    \* signals sent since drawFrame() was entered
    earlySignals, lateSignals,  \* signals sent by the current run()
    touched,                    \* task fields accessed since the snapshot
    raced,                      \* producer fields accessed outside the rendezvous
    pushed, repeats, removed    \* the handles pushed since the last sync, whether one was
                                \* pushed again, and whether removeLayerUpdate was called
                                \* (which ends the record of the pushes)

cfgVars == <<mContext, mUpdateTargetWorkDuration, mReportActualWorkDuration>>
frameVars == <<mFrameInfo, mContentDrawBounds>>
layerVars == <<mLayers, pushed, repeats, removed>>
cbVars == <<mFrameCallback, mFrameCompleteCallback>>
resVars == <<mSyncResult, mSyncQueued>>
estVars == <<mLastTargetWorkDuration, mLastDequeueBufferDuration>>
lockVars == <<mLock, uiWaiting>>
uiVars == <<ppc, frames, ret, crashed, callsLeft, frameBudget>>
runVars == <<queue, rpc, runFrame>>
localVars == <<syncDelayDuration, canDraw, info, canUnblockUiThread, canDrawThisFrame,
               callback, intendedVsync, frameDeadline, frameStartTime,
               dequeueBufferDuration>>
envVars == <<clock, hasSurface, ctx>>
histVars == <<forwarded, skipped, lastDraw, prevDraw, estimated, prevEstimated,
              lastApplied, drew>>
obsVars == <<prepared, syncOut, synced, signals, earlySignals, lateSignals, touched, raced>>
vars == <<cfgVars, frameVars, layerVars, cbVars, resVars, estVars, lockVars, uiVars,
          runVars, localVars, envVars, obsVars, histVars>>

\* TreeInfo as constructed at line 100, before prepareTree fills it in.
TreeInfoInit ==
    [canDrawThisFrame |-> TRUE, hasAnimations |-> FALSE,
     requiresUiRedraw |-> FALSE, prepareTextures |-> TRUE]

TreeInfos ==
    [canDrawThisFrame : BOOLEAN, hasAnimations : BOOLEAN,
     requiresUiRedraw : BOOLEAN, prepareTextures : BOOLEAN]

\* Nothing handed to the CanvasContext or the hint session yet.
CtxInit ==
    [listener |-> EmptySlot, work |-> EmptySlot, op |-> "none",
     target |-> {}, actual |-> {}]

\* No sync is in progress.
SyncedInit ==
    [applied |-> <<>>, pushed |-> {}, repeats |-> FALSE, exact |-> FALSE, before |-> {}]

\* The task as the constructor leaves it, lines 34-38, with no routine posted
\* and the render thread idle; mFrameInfo is not initialised.
InitWith(budget, nframes) ==
    /\ mContext = FALSE
    /\ mUpdateTargetWorkDuration = FALSE
    /\ mReportActualWorkDuration = FALSE
    /\ mFrameInfo \in FrameInfos
    /\ mContentDrawBounds = "empty"
    /\ mLayers = <<>>
    /\ mFrameCallback = EmptySlot
    /\ mFrameCompleteCallback = EmptySlot
    /\ mSyncResult = SyncResultOK
    /\ mSyncQueued = 0
    /\ mLastTargetWorkDuration = 0
    /\ mLastDequeueBufferDuration = 0
    /\ mLock = "none"
    /\ uiWaiting = FALSE
    /\ ppc = "idle" /\ frames = 0 /\ ret = SyncResultOK /\ crashed = FALSE
    /\ callsLeft = budget /\ frameBudget = nframes
    /\ queue = <<>>
    /\ rpc = "idle" /\ runFrame = 0
    /\ syncDelayDuration = 0 /\ canDraw = FALSE /\ info = TreeInfoInit
    /\ canUnblockUiThread = FALSE /\ canDrawThisFrame = FALSE
    /\ callback = EmptySlot
    /\ intendedVsync = 0 /\ frameDeadline = 0 /\ frameStartTime = 0
    /\ dequeueBufferDuration = 0
    /\ clock = 0
    /\ hasSurface = FALSE
    /\ ctx = CtxInit
    /\ prepared = TreeInfoInit
    /\ syncOut = SyncResultOK
    /\ synced = SyncedInit
    /\ forwarded = 0 /\ skipped = FALSE /\ lastDraw = 0 /\ prevDraw = 0
    /\ estimated = FALSE /\ prevEstimated = FALSE
    /\ lastApplied = {} /\ drew = FALSE
    /\ signals = 0 /\ earlySignals = 0 /\ lateSignals = 0
    /\ touched = {} /\ raced = {}
    /\ pushed = {} /\ repeats = FALSE /\ removed = FALSE

Init == InitWith(MaxCalls, MaxFrames)

\* The same task, for the runs explored under fairness.
FairInit == InitWith(MaxFairCalls, MaxFrames)

\* The same task, for the runs of the layer queue alone.
LayerInit == InitWith(MaxLayerCalls, MaxFrames)

\* ------------------------------------------------------------- helpers

\* systemTime(SYSTEM_TIME_MONOTONIC): some value not before the last one read.
ReadClock(t) == t \in Times /\ t >= clock /\ clock' = t

Contains(q, h) == \E i \in 1..Len(q) : q[i] = h

\* Index of the first entry of q equal to h (h is in q).
FirstIndex(q, h) == CHOOSE i \in 1..Len(q) : q[i] = h /\ \A j \in 1..(i - 1) : q[j] # h

\* A push_back without the loop of lines 59-63.
PushLayerUnchecked(q, h) == Append(q, h)

\* pushLayerUpdate's loop and push_back, lines 59-64.
PushLayer(q, h) == IF Contains(q, h) THEN q ELSE Append(q, h)

\* An erase of the first entry, whichever entry matched.
RemoveLayerFront(q, h) == IF Contains(q, h) THEN Tail(q) ELSE q

\* removeLayerUpdate's loop and erase, lines 68-73.
RemoveLayer(q, h) ==
    IF Contains(q, h)
    THEN LET i == FirstIndex(q, h) IN SubSeq(q, 1, i - 1) \o SubSeq(q, i + 1, Len(q))
    ELSE q

\* The producer is suspended in drawFrame(): it has posted run() and has
\* not been signalled yet.
ProducerBlocked == ppc = "wait" \/ (ppc = "waiting" /\ uiWaiting)

\* The render thread's statements from the end of run()'s snapshot on.
AfterSnapshot == rpc \in {"early", "work", "draw", "late", "estimate", "store"}

\* Bookkeeping of a render-thread step that accesses the task fields fs.
Observe(fs) ==
    /\ touched' = IF AfterSnapshot THEN touched \cup fs ELSE touched
    /\ raced' = IF ProducerBlocked /\ earlySignals + lateSignals = 0
                THEN raced
                ELSE raced \cup (fs \cap ProducerFields)

\* ------------------------------------------------------ producer thread

\* The producer is between two drawFrame() calls and may call the task.
ProducerCall ==
    /\ ppc = "idle" /\ ~crashed
    /\ callsLeft > 0
    /\ callsLeft' = callsLeft - 1
    /\ UNCHANGED <<ppc, frames, ret, frameBudget>>

\* setContext, lines 42-47.
SetContext ==
    /\ ppc = "idle" /\ ~crashed
    /\ ~mContext
    /\ mContext' = TRUE
    /\ UNCHANGED <<mUpdateTargetWorkDuration, mReportActualWorkDuration>>
    /\ UNCHANGED <<frameVars, layerVars, cbVars, resVars, estVars, lockVars, uiVars,
                   runVars, localVars, envVars, obsVars>>
    /\ UNCHANGED histVars

\* setHintSessionCallbacks, lines 49-53: the callbacks are installed once; the
\* second function may be empty.
SetHintSessionCallbacks ==
    /\ ProducerCall
    /\ ~mUpdateTargetWorkDuration
    /\ mUpdateTargetWorkDuration' = TRUE
    /\ \E r \in BOOLEAN : mReportActualWorkDuration' = r
    /\ UNCHANGED <<mContext, crashed>>
    /\ UNCHANGED <<frameVars, layerVars, cbVars, resVars, estVars, lockVars,
                   runVars, localVars, envVars, obsVars>>
    /\ UNCHANGED histVars

\* A pushLayerUpdate without the check of lines 56-57.
PushIsFatalNever == FALSE

\* pushLayerUpdate, lines 56-57: LOG_ALWAYS_FATAL_IF(!mContext, ...).
PushIsFatal == ~mContext

\* pushLayerUpdate, lines 55-65.
PushLayerUpdateOf(h) ==
    /\ ProducerCall
    /\ IF PushIsFatal
       THEN /\ crashed' = TRUE
            /\ UNCHANGED <<mLayers, pushed, repeats>>
       ELSE /\ mLayers' = PushLayer(mLayers, h)
            /\ pushed' = IF removed THEN pushed ELSE pushed \cup {h}
            /\ repeats' = IF removed THEN repeats ELSE (repeats \/ h \in pushed)
            /\ UNCHANGED crashed
    /\ UNCHANGED removed
    /\ UNCHANGED <<cfgVars, frameVars, cbVars, resVars, estVars, lockVars,
                   runVars, localVars, envVars, obsVars>>
    /\ UNCHANGED histVars

\* The producer pushes some layer.
PushLayerUpdate == \E h \in Handles : PushLayerUpdateOf(h)

\* removeLayerUpdate, lines 67-74: there is no check of mContext.
RemoveLayerUpdateOf(h) ==
    /\ ProducerCall
    /\ mLayers' = RemoveLayer(mLayers, h)
    /\ removed' = TRUE
    /\ UNCHANGED <<pushed, repeats, crashed>>
    /\ UNCHANGED <<cfgVars, frameVars, cbVars, resVars, estVars, lockVars,
                   runVars, localVars, envVars, obsVars>>
    /\ UNCHANGED histVars

\* The producer removes some layer.
RemoveLayerUpdate == \E h \in Handles : RemoveLayerUpdateOf(h)

\* The producer fills in the frame info array returned by frameInfo().
SetFrameInfo ==
    /\ ProducerCall
    /\ \E f \in FrameInfos : f # mFrameInfo /\ mFrameInfo' = f
    /\ UNCHANGED <<mContentDrawBounds, crashed>>
    /\ UNCHANGED <<cfgVars, layerVars, cbVars, resVars, estVars, lockVars,
                   runVars, localVars, envVars, obsVars>>
    /\ UNCHANGED histVars

\* The producer fills in a frame info with durations at the sanity bounds.
SetFrameInfoAtBounds ==
    /\ ProducerCall
    /\ \E f \in BoundaryFrameInfos : f # mFrameInfo /\ mFrameInfo' = f
    /\ UNCHANGED <<mContentDrawBounds, crashed>>
    /\ UNCHANGED <<cfgVars, layerVars, cbVars, resVars, estVars, lockVars,
                   runVars, localVars, envVars, obsVars>>
    /\ UNCHANGED histVars

\* setContentDrawBounds.
SetContentDrawBounds ==
    /\ ProducerCall
    /\ \E b \in DrawBounds : b # mContentDrawBounds /\ mContentDrawBounds' = b
    /\ UNCHANGED <<mFrameInfo, crashed>>
    /\ UNCHANGED <<cfgVars, layerVars, cbVars, resVars, estVars, lockVars,
                   runVars, localVars, envVars, obsVars>>
    /\ UNCHANGED histVars

\* setFrameCallback: the installed callback is identified by the number of
\* the drawFrame() call it is installed for.
SetFrameCallback ==
    /\ ProducerCall
    /\ mFrameCallback' = frames + 1
    /\ UNCHANGED <<mFrameCompleteCallback, crashed>>
    /\ UNCHANGED <<cfgVars, frameVars, layerVars, resVars, estVars, lockVars,
                   runVars, localVars, envVars, obsVars>>
    /\ UNCHANGED histVars

\* setFrameCompleteCallback.
SetFrameCompleteCallback ==
    /\ ProducerCall
    /\ mFrameCompleteCallback' = frames + 1
    /\ UNCHANGED <<mFrameCallback, crashed>>
    /\ UNCHANGED <<cfgVars, frameVars, layerVars, resVars, estVars, lockVars,
                   runVars, localVars, envVars, obsVars>>
    /\ UNCHANGED histVars

\* A drawFrame that keeps the result of the frame before.
ResetResultKept == mSyncResult

\* drawFrame, line 79: mSyncResult = SyncResult::OK.
ResetResult == SyncResultOK

\* drawFrame, lines 76-81: the fatal check, the reset of the result and the
\* enqueue timestamp.
DrawFrameBegin ==
    /\ ppc = "idle" /\ ~crashed
    /\ frames < frameBudget
    /\ IF ~mContext
       THEN /\ crashed' = TRUE
            /\ UNCHANGED <<mSyncResult, mSyncQueued, ppc, frames, clock, signals>>
       ELSE /\ mSyncResult' = ResetResult
            /\ signals' = 0
            /\ \E t \in Times : ReadClock(t) /\ mSyncQueued' = t
            /\ frames' = frames + 1
            /\ ppc' = "lock"
            /\ UNCHANGED crashed
    /\ UNCHANGED <<ret, callsLeft, frameBudget, hasSurface, ctx>>
    /\ UNCHANGED <<prepared, syncOut, synced, earlySignals, lateSignals, touched, raced>>
    /\ UNCHANGED <<cfgVars, frameVars, layerVars, cbVars, estVars, lockVars,
                   runVars, localVars>>
    /\ UNCHANGED histVars

\* postAndWait, line 87: AutoMutex _lock(mLock).
PostAndWaitLock ==
    /\ ppc = "lock"
    /\ mLock = "none"
    /\ mLock' = "ui"
    /\ ppc' = "post"
    /\ UNCHANGED <<uiWaiting, frames, ret, crashed, callsLeft, frameBudget>>
    /\ UNCHANGED <<cfgVars, frameVars, layerVars, cbVars, resVars, estVars,
                   runVars, localVars, envVars, obsVars>>
    /\ UNCHANGED histVars

\* postAndWait, line 88: queue().post([this]() { run(); }).
PostAndWaitPost ==
    /\ ppc = "post"
    /\ queue' = Append(queue, frames)
    /\ ppc' = "wait"
    /\ UNCHANGED <<rpc, runFrame, frames, ret, crashed, callsLeft, frameBudget>>
    /\ UNCHANGED <<cfgVars, frameVars, layerVars, cbVars, resVars, estVars, lockVars,
                   localVars, envVars, obsVars>>
    /\ UNCHANGED histVars

\* postAndWait, line 89: mSignal.wait(mLock) releases the mutex and enters
\* the wait set in one step.
PostAndWaitWait ==
    /\ ppc = "wait"
    /\ mLock' = "none"
    /\ uiWaiting' = TRUE
    /\ ppc' = "waiting"
    /\ UNCHANGED <<frames, ret, crashed, callsLeft, frameBudget>>
    /\ UNCHANGED <<cfgVars, frameVars, layerVars, cbVars, resVars, estVars,
                   runVars, localVars, envVars, obsVars>>
    /\ UNCHANGED histVars

\* postAndWait, line 89: the signalled wait re-acquires the mutex.
PostAndWaitWake ==
    /\ ppc = "waiting" /\ ~uiWaiting
    /\ mLock = "none"
    /\ mLock' = "ui"
    /\ ppc' = "unlock"
    /\ UNCHANGED <<uiWaiting, frames, ret, crashed, callsLeft, frameBudget>>
    /\ UNCHANGED <<cfgVars, frameVars, layerVars, cbVars, resVars, estVars,
                   runVars, localVars, envVars, obsVars>>
    /\ UNCHANGED histVars

\* postAndWait, line 90: the AutoMutex goes out of scope.
PostAndWaitUnlock ==
    /\ ppc = "unlock"
    /\ mLock' = "none"
    /\ ppc' = "return"
    /\ UNCHANGED <<uiWaiting, frames, ret, crashed, callsLeft, frameBudget>>
    /\ UNCHANGED <<cfgVars, frameVars, layerVars, cbVars, resVars, estVars,
                   runVars, localVars, envVars, obsVars>>
    /\ UNCHANGED histVars

\* drawFrame, line 83: return mSyncResult.
DrawFrameReturn ==
    /\ ppc = "return"
    /\ ret' = mSyncResult
    /\ ppc' = "idle"
    /\ UNCHANGED <<frames, crashed, callsLeft, frameBudget>>
    /\ UNCHANGED <<cfgVars, frameVars, layerVars, cbVars, resVars, estVars, lockVars,
                   runVars, localVars, envVars, obsVars>>
    /\ UNCHANGED histVars

ProducerInDrawFrame ==
    \/ PostAndWaitLock
    \/ PostAndWaitPost
    \/ PostAndWaitWait
    \/ PostAndWaitWake
    \/ PostAndWaitUnlock
    \/ DrawFrameReturn

\* -------------------------------------------------------- render thread

Min(a, b) == IF a < b THEN a ELSE b

\* int64 division of C++, which truncates toward zero.
TruncDiv(a, b) == IF a >= 0 THEN a \div b ELSE -((-a) \div b)

\* Both flags raised whenever either condition holds.
SurfaceFlagsBoth(result, surface, current) ==
    IF ~surface \/ ~current
    THEN result \cup {LostSurfaceRewardIfFound, ContextIsStopped}
    ELSE result

\* syncFrameState, lines 186-192: the flag for a missing surface or a
\* context that could not be made current.
SurfaceFlags(result, surface, current) ==
    IF ~surface \/ ~current
    THEN IF ~surface
         THEN result \cup {LostSurfaceRewardIfFound}
         ELSE result \cup {ContextIsStopped}
    ELSE result

\* The tree's answer kept, without the assignment of line 193.
CanDrawAfterSurfaceKept(treeCanDraw, surface, current) == treeCanDraw

\* syncFrameState, lines 186 and 193: info.out.canDrawThisFrame afterwards.
CanDrawAfterSurface(treeCanDraw, surface, current) ==
    IF ~surface \/ ~current THEN FALSE ELSE treeCanDraw

\* The flag raised for animations alone.
AnimationFlagsAnimating(result, hasAnimations, requiresUiRedraw) ==
    IF hasAnimations THEN result \cup {UIRedrawRequired} ELSE result

\* syncFrameState, lines 196-200.
AnimationFlags(result, hasAnimations, requiresUiRedraw) ==
    IF hasAnimations
    THEN IF requiresUiRedraw THEN result \cup {UIRedrawRequired} ELSE result
    ELSE result

\* syncFrameState, lines 201-203.
DroppedFlags(result, canDrawFrame) ==
    IF ~canDrawFrame THEN result \cup {FrameDropped} ELSE result

\* An early release point that also looks at the sync outcome.
UnblockEarlyIfDrawable(canUnblock) == canUnblock /\ canDrawThisFrame

\* run, line 119: the early release point.
UnblockEarly(canUnblock) == canUnblock

\* A late release point that does not look at the sync outcome.
UnblockLateAlways(canUnblock) == TRUE

\* run, line 137: the late release point.
UnblockLate(canUnblock) == ~canUnblock

\* A signal sent without taking mLock.
UnblockEnabledUnlocked == TRUE

\* unblockUiThread, line 209: the signal is sent holding mLock.
UnblockEnabled == mLock = "none"

\* Task fields each part of run() reads or writes.
RunStartFields == {"mFrameInfo", "mSyncQueued"}
SyncBeginFields == {"mContext", "mFrameInfo", "mRenderThread"}
SyncLayersFields == {"mLayers"}
SyncPrepareFields == {"mContext", "mContentDrawBounds", "mFrameInfo", "mSyncQueued", "mTargetNode"}
SyncFlagsFields == {"mContext", "mSyncResult"}
FrameCompleteFields == {"mContext", "mFrameCompleteCallback"}
SnapshotFields == {"mContext", "mFrameCallback", "mFrameInfo"}
\* An estimator that reads the frame information in place, not the copies
\* of lines 114-116.
EstimatorFieldsInPlace ==
    {"mUpdateTargetWorkDuration", "mReportActualWorkDuration",
     "mLastTargetWorkDuration", "mLastDequeueBufferDuration", "mFrameInfo"}

\* run, lines 141-161: the fields the estimator reads.
EstimatorFields ==
    {"mUpdateTargetWorkDuration", "mReportActualWorkDuration",
     "mLastTargetWorkDuration", "mLastDequeueBufferDuration"}
StoreFields == {"mLastDequeueBufferDuration"}

\* run, lines 92-95: the render thread takes the next posted routine.
RunStart ==
    /\ rpc = "idle" /\ ~crashed
    /\ queue # <<>>
    /\ runFrame' = Head(queue)
    /\ queue' = Tail(queue)
    /\ \E t \in Times : ReadClock(t) /\ syncDelayDuration' = t - mSyncQueued
    /\ UNCHANGED <<earlySignals, lateSignals, touched>>
    /\ raced' = IF ProducerBlocked /\ earlySignals + lateSignals = 0 THEN raced ELSE raced \cup (RunStartFields \cap ProducerFields)
    /\ rpc' = "syncBegin"
    /\ UNCHANGED <<canDraw, info, canUnblockUiThread, canDrawThisFrame, callback,
                   intendedVsync, frameDeadline, frameStartTime, dequeueBufferDuration>>
    /\ UNCHANGED <<hasSurface, ctx, prepared, syncOut, synced, signals>>
    /\ UNCHANGED <<cfgVars, frameVars, layerVars, cbVars, resVars, estVars, lockVars, uiVars>>
    /\ prevDraw' = lastDraw /\ prevEstimated' = estimated
    /\ UNCHANGED <<forwarded, skipped, lastDraw, estimated, lastApplied, drew>>

\* run, line 100, and syncFrameState, lines 167-175: vsyncReceived,
\* makeCurrent, unpinImages.
SyncBegin ==
    /\ rpc = "syncBegin"
    /\ info' = TreeInfoInit
    /\ \E c \in BOOLEAN : canDraw' = c
    /\ Observe(SyncBeginFields)
    /\ rpc' = "syncLayers"
    /\ UNCHANGED <<queue, runFrame>>
    /\ UNCHANGED <<syncDelayDuration, canUnblockUiThread, canDrawThisFrame, callback,
                   intendedVsync, frameDeadline, frameStartTime, dequeueBufferDuration>>
    /\ UNCHANGED <<prepared, syncOut, synced, signals, earlySignals, lateSignals>>
    /\ UNCHANGED <<cfgVars, frameVars, layerVars, cbVars, resVars, estVars, lockVars,
                   uiVars, envVars>>
    /\ UNCHANGED histVars

LayersAfterSyncKept(q) == q

\* syncFrameState, line 180: mLayers.clear().
LayersAfterSync(q) == <<>>

\* syncFrameState, lines 177-180: apply every queued layer in order, then
\* clear the queue.
SyncLayers ==
    /\ rpc = "syncLayers"
    /\ synced' = [applied |-> mLayers, pushed |-> pushed, repeats |-> repeats,
                  exact |-> ~removed, before |-> lastApplied]
    /\ mLayers' = LayersAfterSync(mLayers)
    /\ pushed' = {} /\ repeats' = FALSE /\ removed' = FALSE
    /\ Observe(SyncLayersFields)
    /\ rpc' = "syncPrepare"
    /\ UNCHANGED <<queue, runFrame>>
    /\ UNCHANGED <<prepared, syncOut, signals, earlySignals, lateSignals>>
    /\ UNCHANGED <<cfgVars, frameVars, cbVars, resVars, estVars, lockVars, uiVars,
                   localVars, envVars>>
    /\ lastApplied' = {mLayers[i] : i \in 1..Len(mLayers)}
    /\ UNCHANGED <<forwarded, skipped, lastDraw, prevDraw, estimated, prevEstimated, drew>>

\* syncFrameState, lines 181-182: setContentDrawBounds and prepareTree, which
\* fills in the TreeInfo.
SyncPrepare ==
    /\ rpc = "syncPrepare"
    /\ \E i \in TreeInfos : info' = i /\ prepared' = i
    /\ Observe(SyncPrepareFields)
    /\ rpc' = "syncFlags"
    /\ UNCHANGED <<queue, runFrame>>
    /\ UNCHANGED <<syncDelayDuration, canDraw, canUnblockUiThread, canDrawThisFrame,
                   callback, intendedVsync, frameDeadline, frameStartTime,
                   dequeueBufferDuration>>
    /\ synced' = SyncedInit
    /\ UNCHANGED <<syncOut, signals, earlySignals, lateSignals>>
    /\ UNCHANGED <<cfgVars, frameVars, layerVars, cbVars, resVars, estVars, lockVars,
                   uiVars, envVars>>
    /\ UNCHANGED histVars

\* syncFrameState, lines 186-205, and run, lines 101-102.  hasSurface() is
\* asked twice, on the render thread, which alone changes the surface: both
\* calls return the same value.
SyncFlagsStep ==
    /\ rpc = "syncFlags"
    /\ \E surface \in BOOLEAN :
          LET drawable == CanDrawAfterSurface(info.canDrawThisFrame, surface, canDraw)
              r1 == SurfaceFlags(mSyncResult, surface, canDraw)
              r2 == AnimationFlags(r1, info.hasAnimations, info.requiresUiRedraw)
              r3 == DroppedFlags(r2, drawable)
              raised == DroppedFlags(AnimationFlags(SurfaceFlags(SyncResultOK, surface, canDraw),
                                                    info.hasAnimations,
                                                    info.requiresUiRedraw), drawable)
          IN /\ hasSurface' = surface
             /\ mSyncResult' = r3
             /\ syncOut' = raised
             /\ info' = [info EXCEPT !.canDrawThisFrame = drawable]
             /\ canDrawThisFrame' = drawable
    /\ canUnblockUiThread' = info.prepareTextures
    /\ Observe(SyncFlagsFields)
    /\ rpc' = "listener"
    /\ UNCHANGED <<queue, runFrame, mSyncQueued>>
    /\ UNCHANGED <<syncDelayDuration, canDraw, callback, intendedVsync, frameDeadline,
                   frameStartTime, dequeueBufferDuration>>
    /\ UNCHANGED <<prepared, synced, signals, earlySignals, lateSignals>>
    /\ UNCHANGED <<clock, ctx>>
    /\ UNCHANGED <<cfgVars, frameVars, layerVars, cbVars, estVars, lockVars, uiVars>>
    /\ UNCHANGED histVars

MovedFromKept(slot) == slot

\* run, lines 106 and 113: a slot is set to nullptr once its callback is moved
\* out of it.
MovedFrom(slot) == EmptySlot

\* run, lines 104-108: hand the frame-complete callback to the context; the
\* TreeInfo goes out of scope.
FrameComplete ==
    /\ rpc = "listener"
    /\ IF mFrameCompleteCallback # EmptySlot
       THEN /\ ctx' = [CtxInit EXCEPT !.listener = mFrameCompleteCallback]
            /\ mFrameCompleteCallback' = MovedFrom(mFrameCompleteCallback)
       ELSE /\ ctx' = CtxInit
            /\ UNCHANGED mFrameCompleteCallback
    /\ info' = TreeInfoInit /\ prepared' = TreeInfoInit /\ canDraw' = FALSE
    /\ hasSurface' = FALSE
    /\ Observe(FrameCompleteFields)
    /\ rpc' = "snapshot"
    /\ UNCHANGED <<queue, runFrame, mFrameCallback, clock>>
    /\ UNCHANGED <<syncDelayDuration, canUnblockUiThread, canDrawThisFrame, callback,
                   intendedVsync, frameDeadline, frameStartTime, dequeueBufferDuration>>
    /\ UNCHANGED <<syncOut, synced, signals, earlySignals, lateSignals>>
    /\ UNCHANGED <<cfgVars, frameVars, layerVars, resVars, estVars, lockVars, uiVars>>
    /\ UNCHANGED histVars

\* run, lines 110-116: copy everything the rest of the routine needs.
Snapshot ==
    /\ rpc = "snapshot"
    /\ callback' = mFrameCallback
    /\ mFrameCallback' = MovedFrom(mFrameCallback)
    /\ intendedVsync' = mFrameInfo.intendedVsync
    /\ frameDeadline' = mFrameInfo.frameDeadline
    /\ frameStartTime' = mFrameInfo.frameStartTime
    /\ Observe(SnapshotFields)
    /\ rpc' = "early"
    /\ UNCHANGED <<queue, runFrame, mFrameCompleteCallback>>
    /\ UNCHANGED <<syncDelayDuration, canDraw, info, canUnblockUiThread, canDrawThisFrame,
                   dequeueBufferDuration>>
    /\ UNCHANGED <<prepared, syncOut, synced, signals, earlySignals, lateSignals>>
    /\ ctx' = CtxInit
    /\ UNCHANGED <<clock, hasSurface>>
    /\ UNCHANGED <<cfgVars, frameVars, layerVars, resVars, estVars, lockVars, uiVars>>
    /\ UNCHANGED histVars

\* run, lines 119-121, with unblockUiThread, lines 208-211: lock, signal,
\* unlock.  A signal wakes the waiting producer; without a waiter it is lost.
EarlyUnblock ==
    /\ rpc = "early"
    /\ IF UnblockEarly(canUnblockUiThread)
       THEN /\ UnblockEnabled
            /\ uiWaiting' = FALSE
            /\ earlySignals' = earlySignals + 1
            /\ signals' = signals + 1
            /\ Observe(RendezvousFields)
       ELSE UNCHANGED <<uiWaiting, earlySignals, signals, touched, raced>>
    /\ rpc' = "work"
    /\ UNCHANGED <<queue, runFrame, mLock>>
    /\ UNCHANGED <<prepared, syncOut, synced, lateSignals>>
    /\ ctx' = CtxInit
    /\ UNCHANGED <<clock, hasSurface>>
    /\ UNCHANGED <<cfgVars, frameVars, layerVars, cbVars, resVars, estVars, uiVars,
                   localVars>>
    /\ UNCHANGED histVars

\* run, lines 123-127: enqueueFrameWork with the captured callback.
EnqueueFrameWork ==
    /\ rpc = "work"
    /\ IF callback # EmptySlot
       THEN ctx' = [CtxInit EXCEPT !.work = callback]
       ELSE ctx' = CtxInit
    /\ rpc' = "draw"
    /\ UNCHANGED <<queue, runFrame, clock, hasSurface>>
    /\ UNCHANGED <<cfgVars, frameVars, layerVars, cbVars, resVars, estVars, lockVars,
                   uiVars, localVars, obsVars>>
    /\ UNCHANGED histVars

ShouldDrawAlways(canDrawFrame) == TRUE

\* run, line 130: draw only a frame the sync left drawable.
ShouldDraw(canDrawFrame) == canDrawFrame

\* run, lines 129-135: draw(), or waitOnFences() for a frame that is skipped.
DrawOrWait ==
    /\ rpc = "draw"
    /\ IF ShouldDraw(canDrawThisFrame)
       THEN /\ \E d \in DequeueDurations :
                  dequeueBufferDuration' = d /\ lastDraw' = d
            /\ ctx' = [CtxInit EXCEPT !.op = "draw"]
       ELSE /\ dequeueBufferDuration' = 0 /\ lastDraw' = 0
            /\ ctx' = [CtxInit EXCEPT !.op = "waitOnFences"]
    /\ rpc' = "late"
    /\ UNCHANGED <<queue, runFrame, clock, hasSurface>>
    /\ UNCHANGED <<syncDelayDuration, canDraw, info, canUnblockUiThread, canDrawThisFrame,
                   callback, intendedVsync, frameDeadline, frameStartTime>>
    /\ UNCHANGED <<cfgVars, frameVars, layerVars, cbVars, resVars, estVars, lockVars,
                   uiVars, obsVars>>
    /\ drew' = ShouldDraw(canDrawThisFrame)
    /\ UNCHANGED <<forwarded, skipped, prevDraw, estimated, prevEstimated, lastApplied>>

\* run, lines 137-139, with unblockUiThread, lines 208-211.
LateUnblock ==
    /\ rpc = "late"
    /\ IF UnblockLate(canUnblockUiThread)
       THEN /\ UnblockEnabled
            /\ uiWaiting' = FALSE
            /\ lateSignals' = lateSignals + 1
            /\ signals' = signals + 1
            /\ Observe(RendezvousFields)
       ELSE UNCHANGED <<uiWaiting, lateSignals, signals, touched, raced>>
    /\ rpc' = "estimate"
    /\ UNCHANGED <<queue, runFrame, mLock>>
    /\ UNCHANGED <<prepared, syncOut, synced, earlySignals>>
    /\ ctx' = CtxInit
    /\ UNCHANGED <<clock, hasSurface>>
    /\ UNCHANGED <<cfgVars, frameVars, layerVars, cbVars, resVars, estVars, uiVars,
                   localVars>>
    /\ UNCHANGED histVars

\* run, lines 146-147.
TargetWorkDuration(deadline, vsync) ==
    TruncDiv((deadline - vsync) * targetCpuTimePercentage, 100)

WithinSanityBoundsInclusive(d) ==
    d >= kSanityCheckLowerBound /\ d <= kSanityCheckUpperBound

\* run, lines 148-149 and 158.
WithinSanityBounds(d) == d > kSanityCheckLowerBound /\ d < kSanityCheckUpperBound

TargetChangedAlways(target, last) == TRUE

\* run, line 150: the target is forwarded only if it is not the last one.
TargetChanged(target, last) == target # last

\* run, lines 154-157.
ActualDuration(now, start, syncDelay, lastDequeue, dequeue) ==
    (now - start) - Min(syncDelay, lastDequeue) - dequeue

\* run, lines 141-161: the work duration estimator.
Estimator ==
    /\ rpc = "estimate"
    /\ IF mUpdateTargetWorkDuration /\ mReportActualWorkDuration
       THEN /\ LET target == TargetWorkDuration(frameDeadline, intendedVsync)
                   forward == WithinSanityBounds(target)
                              /\ TargetChanged(target, mLastTargetWorkDuration)
               IN /\ mLastTargetWorkDuration' =
                        IF forward THEN target ELSE mLastTargetWorkDuration
                  /\ forwarded' = IF forward THEN target ELSE forwarded
                  /\ skipped' = IF forward THEN FALSE
                                ELSE skipped \/ ~WithinSanityBounds(target)
                  /\ \E t \in Times :
                        /\ ReadClock(t)
                        /\ LET actual == ActualDuration(t, frameStartTime, syncDelayDuration,
                                                        mLastDequeueBufferDuration,
                                                        dequeueBufferDuration)
                           IN ctx' = [CtxInit EXCEPT
                                        !.target = IF forward THEN {target} ELSE {},
                                        !.actual = IF WithinSanityBounds(actual)
                                                   THEN {actual} ELSE {}]
       ELSE /\ ctx' = CtxInit
            /\ UNCHANGED <<mLastTargetWorkDuration, clock, forwarded, skipped>>
    /\ Observe(EstimatorFields)
    /\ rpc' = "store"
    /\ UNCHANGED <<queue, runFrame, mLastDequeueBufferDuration, hasSurface>>
    /\ UNCHANGED <<prepared, syncOut, synced, signals, earlySignals, lateSignals>>
    /\ UNCHANGED <<cfgVars, frameVars, layerVars, cbVars, resVars, lockVars, uiVars,
                   localVars>>
    /\ estimated' = (mUpdateTargetWorkDuration /\ mReportActualWorkDuration)
    /\ UNCHANGED <<lastDraw, prevDraw, prevEstimated, lastApplied, drew>>

StoredDequeueBufferDurationNone(measured) == 0

\* run, line 162: the duration stored for the next frame.
StoredDequeueBufferDuration(measured) == measured

\* run, lines 162-163: store the dequeue-buffer duration and return; the
\* locals go out of scope.
StoreAndReturn ==
    /\ rpc = "store"
    /\ mLastDequeueBufferDuration' = StoredDequeueBufferDuration(dequeueBufferDuration)
    /\ syncDelayDuration' = 0 /\ canDraw' = FALSE /\ info' = TreeInfoInit
    /\ canUnblockUiThread' = FALSE /\ canDrawThisFrame' = FALSE
    /\ callback' = EmptySlot
    /\ intendedVsync' = 0 /\ frameDeadline' = 0 /\ frameStartTime' = 0
    /\ dequeueBufferDuration' = 0
    /\ ctx' = CtxInit
    /\ touched' = {}
    /\ raced' = IF ProducerBlocked /\ earlySignals + lateSignals = 0
                THEN raced ELSE raced \cup (StoreFields \cap ProducerFields)
    /\ earlySignals' = 0 /\ lateSignals' = 0
    /\ rpc' = "idle"
    /\ UNCHANGED <<queue, runFrame, mLastTargetWorkDuration, clock, hasSurface>>
    /\ UNCHANGED <<prepared, syncOut, synced, signals>>
    /\ UNCHANGED <<cfgVars, frameVars, layerVars, cbVars, resVars, lockVars, uiVars>>
    /\ UNCHANGED histVars

RenderThread ==
    \/ RunStart
    \/ SyncBegin
    \/ SyncLayers
    \/ SyncPrepare
    \/ SyncFlagsStep
    \/ FrameComplete
    \/ Snapshot
    \/ EarlyUnblock
    \/ EnqueueFrameWork
    \/ DrawOrWait
    \/ LateUnblock
    \/ Estimator
    \/ StoreAndReturn

Next ==
    \/ SetContext
    \/ SetHintSessionCallbacks
    \/ PushLayerUpdate
    \/ RemoveLayerUpdate
    \/ SetFrameInfo
    \/ SetContentDrawBounds
    \/ SetFrameCallback
    \/ SetFrameCompleteCallback
    \/ DrawFrameBegin
    \/ PostAndWaitLock
    \/ PostAndWaitPost
    \/ PostAndWaitWait
    \/ PostAndWaitWake
    \/ PostAndWaitUnlock
    \/ DrawFrameReturn
    \/ RunStart
    \/ SyncBegin
    \/ SyncLayers
    \/ SyncPrepare
    \/ SyncFlagsStep
    \/ FrameComplete
    \/ Snapshot
    \/ EarlyUnblock
    \/ EnqueueFrameWork
    \/ DrawOrWait
    \/ LateUnblock
    \/ Estimator
    \/ StoreAndReturn

Spec == Init /\ [][Next]_vars

\* The render thread is scheduled fairly and every CanvasContext operation
\* returns; a producer inside drawFrame() keeps running.
FairSpec ==
    FairInit /\ [][Next]_vars /\ WF_vars(RenderThread) /\ WF_vars(ProducerInDrawFrame)

\* The layer queue alone: the producer pushes and removes layers and draws
\* frames, and sets nothing else.
LayerNext ==
    \/ SetContext
    \/ PushLayerUpdate
    \/ RemoveLayerUpdate
    \/ DrawFrameBegin
    \/ ProducerInDrawFrame
    \/ RenderThread

LayerSpec == LayerInit /\ [][LayerNext]_vars

\* The work duration estimator alone: the producer installs the hint session
\* callbacks, fills in frame infos, those at the sanity bounds included, and
\* draws frames, and sets nothing else.
EstimatorNext ==
    \/ SetContext
    \/ SetHintSessionCallbacks
    \/ SetFrameInfo
    \/ SetFrameInfoAtBounds
    \/ DrawFrameBegin
    \/ ProducerInDrawFrame
    \/ RenderThread

\* The same task, for the runs of the estimator alone.
EstimatorInit == InitWith(MaxEstimatorCalls, MaxEstimatorFrames)

EstimatorSpec == EstimatorInit /\ [][EstimatorNext]_vars

\* ---------------------------------------------------------------------------
\* Properties
\* ---------------------------------------------------------------------------

\* C1: every execution of run() sends the release signal exactly once: never
\* twice at any point of a run, at the early point exactly when
\* syncFrameState returned true, and otherwise at the late point, so that one
\* signal has been sent when the estimator starts; a drawFrame() call that
\* has been woken, or has returned, has received exactly one signal.
ReleaseSignalExactlyOnce ==
    /\ earlySignals + lateSignals <= 1
    /\ signals <= 1
    /\ rpc \in {"work", "draw", "late"} =>
          /\ lateSignals = 0
          /\ (earlySignals = 1) <=> canUnblockUiThread
    /\ rpc \in {"estimate", "store"} =>
          /\ earlySignals + lateSignals = 1
          /\ (earlySignals = 1) <=> canUnblockUiThread
          /\ (lateSignals = 1) <=> ~canUnblockUiThread
    /\ ppc \in {"unlock", "return"} => signals = 1
    /\ (ppc = "idle" /\ frames > 0) => signals = 1

\* C1: the run of a second frame has sent its one signal at the late point.
LateReleaseReached ==
    /\ rpc = "store" /\ runFrame > 1
    /\ lateSignals = 1 /\ earlySignals = 0
    /\ ~canUnblockUiThread

\* C2: under a fair render thread whose collaborators return, every
\* drawFrame() call that has started returns, wherever the producer stands
\* when the render thread reaches the signal.
DrawFrameReturns == (ppc # "idle") ~> (ppc = "idle")

\* C2: run() has finished the sync and stands at the early signal while the
\* producer has posted it but has not started to wait yet.
SignalReadyBeforeWait ==
    /\ ppc = "wait" /\ mLock = "ui"
    /\ rpc = "early" /\ canUnblockUiThread
    /\ runFrame = frames

\* C3: once drawFrame() has been released its run has finished the sync of
\* that very call, the result field holds exactly the flags that sync raised
\* and no render-thread step changes it any more; the value drawFrame()
\* returned is exactly the set of flags the sync of its own run raised, so no
\* flag of an earlier frame is in it.
ResultIsOwnSyncResult ==
    /\ (ppc # "idle" /\ signals = 1) =>
          /\ runFrame = frames
          /\ rpc \in {"work", "draw", "late", "estimate", "store", "idle"}
          /\ mSyncResult = syncOut
    /\ (ppc = "idle" /\ frames > 0) =>
          /\ runFrame = frames
          /\ rpc \in {"work", "draw", "late", "estimate", "store", "idle"}
          /\ ret = syncOut

\* C3: the second drawFrame() call is about to return a result without
\* flags, after a first call that returned some.
CleanResultAfterFlaggedFrame ==
    /\ ppc = "return" /\ frames > 1
    /\ ret # SyncResultOK
    /\ mSyncResult = SyncResultOK /\ syncOut = SyncResultOK

\* C4, as stated: after the snapshot of the per-frame values run() reads or
\* writes no field of the task, the lock and the condition variable of the
\* release signal apart.  The estimator of lines 141-162 does.
NoFieldAccessAfterSnapshot == touched \ RendezvousFields = {}

\* C5: the render thread reads or writes the frame information, the layer
\* queue, the content draw bounds, the result, the enqueue timestamp and the
\* two per-frame callbacks only while the producer is suspended in
\* drawFrame(), and before the release signal of that run.
NoRaceOnProducerFields == raced = {}

\* C5: the producer has installed the callback of its next frame while the
\* run of the first frame, past its signal, is still at the estimator.
ProducerWritesDuringTail ==
    /\ rpc = "estimate" /\ runFrame = 1
    /\ earlySignals + lateSignals = 1
    /\ ppc = "idle" /\ frames = 1
    /\ mFrameCallback = 2

\* C6: when syncFrameState has returned, the result holds
\* LostSurfaceRewardIfFound and not ContextIsStopped if hasSurface() answered
\* false, ContextIsStopped and not LostSurfaceRewardIfFound if a surface
\* exists and makeCurrent() failed, and neither flag otherwise; that result
\* is what drawFrame() returns, and no returned result holds both flags.
SurfaceFlagsExclusive ==
    /\ rpc = "listener" =>
          /\ mSyncResult = syncOut
          /\ ~hasSurface =>
                /\ LostSurfaceRewardIfFound \in mSyncResult
                /\ ContextIsStopped \notin mSyncResult
          /\ (hasSurface /\ ~canDraw) =>
                /\ ContextIsStopped \in mSyncResult
                /\ LostSurfaceRewardIfFound \notin mSyncResult
          /\ (hasSurface /\ canDraw) =>
                /\ LostSurfaceRewardIfFound \notin mSyncResult
                /\ ContextIsStopped \notin mSyncResult
    /\ (ppc = "idle" /\ frames > 0) => ret = syncOut
    /\ ~({LostSurfaceRewardIfFound, ContextIsStopped} \subseteq ret)
    /\ ~({LostSurfaceRewardIfFound, ContextIsStopped} \subseteq mSyncResult)

\* C6: a sync over an existing surface whose makeCurrent() failed has raised
\* ContextIsStopped.
StoppedContextFlagged ==
    /\ rpc = "listener"
    /\ hasSurface /\ ~canDraw
    /\ ContextIsStopped \in mSyncResult

\* C7: when syncFrameState has returned, the result holds FrameDropped if
\* prepareTree reported canDrawThisFrame false, or no surface exists, or
\* makeCurrent() failed; that result is what drawFrame() returns, and a
\* returned result that holds LostSurfaceRewardIfFound or ContextIsStopped
\* holds FrameDropped.
UndrawableFrameDropped ==
    /\ rpc = "listener" =>
          /\ mSyncResult = syncOut
          /\ (~prepared.canDrawThisFrame \/ ~hasSurface \/ ~canDraw) =>
                FrameDropped \in mSyncResult
    /\ (ppc = "idle" /\ frames > 0) => ret = syncOut
    /\ \A r \in {ret, mSyncResult, syncOut} :
          (LostSurfaceRewardIfFound \in r \/ ContextIsStopped \in r) =>
              FrameDropped \in r

\* C7: a sync whose tree could be drawn found no surface and has raised
\* FrameDropped.
LostSurfaceDropsFrame ==
    /\ rpc = "listener"
    /\ prepared.canDrawThisFrame /\ ~hasSurface /\ canDraw
    /\ FrameDropped \in mSyncResult

\* C8: when syncFrameState has returned, the result holds UIRedrawRequired
\* exactly if prepareTree reported both hasAnimations and requiresUiRedraw,
\* whatever the surface, makeCurrent() and the drawability of the frame; that
\* result is what drawFrame() returns.
RedrawFlagIffAnimating ==
    /\ rpc = "listener" =>
          /\ mSyncResult = syncOut
          /\ UIRedrawRequired \in mSyncResult <=>
                (prepared.hasAnimations /\ prepared.requiresUiRedraw)
    /\ (ppc = "idle" /\ frames > 0) => ret = syncOut

\* C8: the sync of a second frame without a surface has raised
\* UIRedrawRequired for animations that ask for a redraw.
RedrawFlaggedWithoutSurface ==
    /\ rpc = "listener" /\ runFrame > 1
    /\ ~hasSurface
    /\ prepared.hasAnimations /\ prepared.requiresUiRedraw
    /\ UIRedrawRequired \in mSyncResult

\* No handle is twice in the queue q.
NoDuplicates(q) == \A i, j \in 1..Len(q) : i # j => q[i] # q[j]

\* C9: in every state the layer queue holds no handle twice; a
\* pushLayerUpdate call for a handle that is in the queue leaves the queue,
\* its content and its order, as it is, and a call for any other handle
\* appends it.
QueueHoldsEachHandleOnce ==
    /\ []NoDuplicates(mLayers)
    /\ [][\A h \in Handles :
            (PushLayerUpdateOf(h) /\ ~crashed') =>
                /\ Contains(mLayers, h) => mLayers' = mLayers
                /\ ~Contains(mLayers, h) => mLayers' = Append(mLayers, h)]_vars

\* C9: a handle has been pushed twice and the queue holds it once.
RepeatedPushQueuedOnce ==
    /\ repeats /\ ~removed
    /\ Len(mLayers) = 1 /\ Cardinality(pushed) = 1

\* C10: while only pushLayerUpdate calls have followed the last sync, however
\* often they repeat a handle, the queue is as long as the number of distinct
\* handles pushed since that sync; the next sync applies that many layer
\* updates and leaves the queue empty.
QueueLengthIsDistinctPushes ==
    /\ ~removed => Len(mLayers) = Cardinality(pushed)
    /\ rpc = "syncPrepare" =>
          /\ mLayers = <<>>
          /\ synced.exact => Len(synced.applied) = Cardinality(synced.pushed)

\* C10: the sync of a second frame has found one entry in the queue for a
\* handle pushed twice since the sync of the first.
SyncFindsRepeatedPushOnce ==
    /\ rpc = "syncPrepare" /\ runFrame > 1
    /\ synced.exact /\ synced.repeats
    /\ Len(synced.applied) = 1 /\ Cardinality(synced.pushed) = 1

\* C11: a removeLayerUpdate call for a handle leaves a queue that does not
\* hold the handle, however often the handle was pushed; it removes at most
\* one entry, keeps the other handles in their order, and changes nothing
\* when the handle is not in the queue.
RemoveTakesTheHandleOut ==
    [][\A h \in Handles :
          RemoveLayerUpdateOf(h) =>
              LET Other(x) == x # h
              IN /\ ~Contains(mLayers', h)
                 /\ Len(mLayers') >= Len(mLayers) - 1
                 /\ mLayers' = SelectSeq(mLayers, Other)
                 /\ ~Contains(mLayers, h) => mLayers' = mLayers]_vars

\* C11: one handle has been pushed twice and then removed once, in three
\* calls, and the queue is empty.
PushedTwiceRemovedOnce ==
    /\ frames = 0 /\ callsLeft = MaxLayerCalls - 3
    /\ removed /\ repeats /\ Cardinality(pushed) = 1
    /\ mLayers = <<>>

TargetForwardedOnlyWhenNew ==
    /\ [][Estimator =>
            LET T == TruncDiv((frameDeadline - intendedVsync) * 70, 100)
            IN /\ ctx'.target # {} =>
                      /\ mUpdateTargetWorkDuration /\ mReportActualWorkDuration
                      /\ T > 20 /\ T < 2000000
                      /\ T # forwarded
                      /\ ctx'.target = {T}
                      /\ mLastTargetWorkDuration' = T
               /\ ctx'.target = {} =>
                      mLastTargetWorkDuration' = mLastTargetWorkDuration]_vars
    /\ [](mLastTargetWorkDuration = forwarded)

\* The estimator of a frame has computed the target it forwarded last, after
\* a frame whose target was outside the bounds, and has not forwarded it again.
SameTargetAfterOutOfBoundsNotForwarded ==
    /\ rpc = "store"
    /\ mUpdateTargetWorkDuration /\ mReportActualWorkDuration
    /\ skipped
    /\ TruncDiv((frameDeadline - intendedVsync) * 70, 100) = 21
    /\ forwarded = 21 /\ mLastTargetWorkDuration = 21
    /\ ctx.target = {}

\* C14: the actual duration callback fires in a frame exactly when both
\* estimator callbacks are installed and (now - frameStartTime) -
\* min(queuing delay, previous dequeue duration) - this frame's dequeue
\* duration lies strictly between 100000 ns and 10000000000 ns; 50000 ns,
\* 100000 ns and 10000000000 ns are suppressed, and neither the value reported
\* before nor the target callback of the same frame plays a part.
ActualReportedIffWithinBounds ==
    [][Estimator =>
          LET A == (clock' - frameStartTime)
                   - (IF syncDelayDuration < mLastDequeueBufferDuration
                      THEN syncDelayDuration ELSE mLastDequeueBufferDuration)
                   - dequeueBufferDuration
              installed == mUpdateTargetWorkDuration /\ mReportActualWorkDuration
          IN /\ (installed /\ A > 20 /\ A < 2000000) => ctx'.actual = {A}
             /\ ~(installed /\ A > 20 /\ A < 2000000) => ctx'.actual = {}
             /\ A \in {10, 20, 2000000} => ctx'.actual = {}]_vars

\* The estimator of a frame has forwarded a new target and has computed an
\* actual duration of exactly 100000 ns, which it has not reported.
LowerBoundActualSuppressed ==
    /\ rpc = "store"
    /\ mUpdateTargetWorkDuration /\ mReportActualWorkDuration
    /\ (clock - frameStartTime)
         - Min(syncDelayDuration, mLastDequeueBufferDuration)
         - dequeueBufferDuration = 20
    /\ ctx.target # {}
    /\ ctx.actual = {}

\* C15: the previous dequeue duration an estimator pass subtracts is what
\* draw() returned in the run before it, or zero if that run waited on the
\* fences instead, whether or not that run found the estimator callbacks
\* installed; once a run has returned, the stored duration is that run's.
PreviousDequeueIsLastRuns ==
    /\ [][Estimator =>
            /\ mLastDequeueBufferDuration = prevDraw
            /\ \A a \in ctx'.actual :
                  a = (clock' - frameStartTime)
                      - (IF syncDelayDuration < prevDraw
                         THEN syncDelayDuration ELSE prevDraw)
                      - dequeueBufferDuration]_vars
    /\ [](rpc = "idle" => mLastDequeueBufferDuration = lastDraw)

\* A frame has reported an actual duration from which it subtracted the
\* 50000 ns that draw() returned in the frame before, whose run found no
\* estimator callbacks installed.
PreviousDrawSubtractedAfterBareFrame ==
    /\ rpc = "store" /\ runFrame > 1
    /\ mUpdateTargetWorkDuration /\ mReportActualWorkDuration
    /\ ~prevEstimated
    /\ prevDraw = 10 /\ syncDelayDuration > 10
    /\ ctx.actual = {(clock - frameStartTime) - 10 - dequeueBufferDuration}

\* C16: a sync applies the handles of the queue as it finds it, each once
\* and in insertion order, and clears the queue before prepareTree is called;
\* the queue is empty whenever the producer is released; a handle enters the
\* queue only by a push of it, so a sync applies exactly the handles pushed
\* since the sync before, if none was removed, and none of an earlier frame.
SyncAppliesQueueOnce ==
    /\ [][SyncLayers =>
            /\ synced'.applied = mLayers
            /\ NoDuplicates(mLayers)
            /\ mLayers' = <<>>]_vars
    /\ [][SyncPrepare => mLayers = <<>>]_vars
    /\ [][((EarlyUnblock \/ LateUnblock) /\ signals' = signals + 1) =>
            mLayers = <<>>]_vars
    /\ [][\A h \in Handles :
            (Contains(mLayers', h) /\ ~Contains(mLayers, h)) =>
                PushLayerUpdateOf(h)]_vars
    /\ [](rpc = "syncPrepare" /\ synced.exact =>
            {synced.applied[i] : i \in 1..Len(synced.applied)} = synced.pushed)

\* The sync of the second frame has applied only the handle pushed again
\* since the first frame, whose sync applied both handles.
SecondSyncAppliesOnlyNewPush ==
    /\ rpc = "syncPrepare" /\ runFrame = 2
    /\ synced.before = {1, 2}
    /\ synced.exact /\ synced.pushed = {2}
    /\ synced.applied = <<2>>
    /\ mLayers = <<>>

\* C17: a run calls exactly one of draw() and waitOnFences(), at one place:
\* draw() if and only if the sync left the frame drawable, which is if and
\* only if the result drawFrame returns for that frame has no FrameDropped; a
\* frame without a surface or with a stopped context is not drawn, and a
\* frame not drawn has a dequeue duration of zero.
DrawnIffNotDropped ==
    /\ [][DrawOrWait =>
            /\ ctx'.op \in {"draw", "waitOnFences"}
            /\ ctx'.op = "draw" <=> canDrawThisFrame
            /\ ctx'.op = "draw" <=> FrameDropped \notin syncOut
            /\ (LostSurfaceRewardIfFound \in syncOut \/ ContextIsStopped \in syncOut) =>
                  ctx'.op = "waitOnFences"
            /\ ctx'.op = "waitOnFences" => dequeueBufferDuration' = 0
            /\ drew' = (ctx'.op = "draw")]_vars
    /\ [](ctx.op # "none" <=> rpc = "late")
    /\ []((/\ ppc = "idle" /\ frames > 0 /\ runFrame = frames
            /\ rpc \in {"late", "estimate", "store", "idle"}) =>
              (drew <=> FrameDropped \notin ret))

\* drawFrame has returned a result with FrameDropped for a frame that lost
\* its surface, and the run of that frame has waited on the fences.
DroppedFrameWaitsOnFences ==
    /\ rpc = "late" /\ ctx.op = "waitOnFences"
    /\ dequeueBufferDuration = 0 /\ ~drew
    /\ LostSurfaceRewardIfFound \in syncOut
    /\ ppc = "idle" /\ runFrame = frames
    /\ FrameDropped \in ret

\* C18: where a run releases the producer follows from what syncFrameState
\* returned, prepareTree's prepareTextures, and from nothing else: if true,
\* the signal is sent between the sync and draw()/waitOnFences(), for a
\* dropped frame too; if false, it is sent after draw()/waitOnFences() has
\* returned, and until then the producer stays blocked in that drawFrame call.
ReleasePointFollowsPrepareTextures ==
    /\ [][SyncFlagsStep => canUnblockUiThread' = prepared.prepareTextures]_vars
    /\ [][EarlyUnblock => ((signals' = signals + 1) <=> canUnblockUiThread)]_vars
    /\ [][LateUnblock => ((signals' = signals + 1) <=> ~canUnblockUiThread)]_vars
    /\ [][signals' = signals + 1 => (EarlyUnblock \/ LateUnblock)]_vars
    /\ []((rpc \in {"early", "work", "draw", "late"} /\ ~canUnblockUiThread) =>
            (ProducerBlocked /\ runFrame = frames /\ signals = 0))

\* drawFrame has returned FrameDropped for a frame released at the early
\* point, whose run has not yet waited on the fences.
DroppedFrameReleasedEarly ==
    /\ rpc = "draw"
    /\ canUnblockUiThread /\ ~canDrawThisFrame
    /\ earlySignals = 1
    /\ ppc = "idle" /\ frames = runFrame
    /\ FrameDropped \in ret

\* C19: runs do not overlap and follow the order of the drawFrame calls: a
\* run starts only when the render thread is idle, the run before it having
\* stored its dequeue duration, and is the run of the next call; no signal
\* wakes the producer but one of the run of the call it waits in; at most
\* one run is queued, and it is of a later call than the one in progress.
RunsInOrderWithoutOverlap ==
    /\ [][RunStart =>
            /\ rpc = "idle"
            /\ runFrame' = runFrame + 1
            /\ mLastDequeueBufferDuration = lastDraw]_vars
    /\ [][(uiWaiting /\ ~uiWaiting') =>
            /\ runFrame = frames
            /\ EarlyUnblock \/ LateUnblock]_vars
    /\ [](Len(queue) <= 1)
    /\ [](\A i \in 1..Len(queue) : queue[i] = runFrame + 1 /\ queue[i] = frames)

\* Released at the early point, the producer has called drawFrame again and
\* waits, its run queued, while the run of the first call is still drawing.
SecondCallWaitsBehindDrawingRun ==
    /\ rpc = "late" /\ runFrame = 1 /\ ctx.op = "draw"
    /\ frames = 2 /\ queue = <<2>>
    /\ ppc = "waiting" /\ uiWaiting

\* C20: a frame-complete callback and a frame callback are handed to the
\* context by the run of the drawFrame call they were installed for, drawn
\* or not, and by no other: the run empties the slot it moves a callback out
\* of, both slots are empty when the producer is released, and whatever a run
\* hands over was installed for the call it belongs to.
CallbacksHandedOverOnce ==
    /\ [][FrameComplete =>
            /\ ctx'.listener = mFrameCompleteCallback
            /\ mFrameCompleteCallback' = EmptySlot]_vars
    /\ [][Snapshot =>
            /\ callback' = mFrameCallback
            /\ mFrameCallback' = EmptySlot]_vars
    /\ [][EnqueueFrameWork => ctx'.work = callback]_vars
    /\ [][signals' = signals + 1 =>
            /\ mFrameCallback = EmptySlot
            /\ mFrameCompleteCallback = EmptySlot]_vars
    /\ [](ctx.listener # EmptySlot => (ctx.listener = runFrame /\ rpc = "snapshot"))
    /\ [](ctx.work # EmptySlot => (ctx.work = runFrame /\ rpc = "draw"))
    /\ [](callback # EmptySlot => callback = runFrame)

\* The run of a dropped frame has handed over the frame callback installed
\* for it, after the frame-complete callback, and has left both slots empty.
DroppedFrameHandsCallbacksOver ==
    /\ rpc = "draw" /\ runFrame = 1
    /\ ~canDrawThisFrame
    /\ ctx.work = 1
    /\ callsLeft = MaxCalls - 2
    /\ mFrameCallback = EmptySlot /\ mFrameCompleteCallback = EmptySlot
    /\ frames = 1 /\ ProducerBlocked

====
